---------------------------- MODULE Spec2Model ----------------------------
(***************************************************************************)
(* Model of the VirtualList component (components/VirtualList.vue), of the *)
(* host view that uses it (views/VirtualListDemo.vue) and of the useTable  *)
(* hook (hooks/useTable.ts).                                               *)
(*                                                                         *)
(* JavaScript numbers are records [t, v]: t = "num" is a finite value v,   *)
(* t = "nan" is NaN, t = "inf" is +Infinity (v = 1) or -Infinity (v = -1). *)
(* Pixel quantities (scrollTop, containerHeight, itemHeight, offsetY,      *)
(* totalHeight) are held in 1/PxUnit of a pixel, so that the percentage    *)
(* resolution `clientHeight * percentage / 100` is exact.  Indices and     *)
(* counts are plain numbers.  Negative zero is not distinguished from 0.   *)
(***************************************************************************)
EXTENDS Integers, Sequences, FiniteSets, TLC

\* ------------------------------------------------------------------ bounds
\* Length of the longest dataset of the component-level specification.
MaxLen == 12
\* Largest parent clientHeight (in units of ParentStep pixels) the layout takes.
MaxParentSteps == 1
\* Number of fetchData calls one table makes.
MaxFetches == 3
\* Number of onThemeChange registrations made with the theme manager.
MaxRegistrations == 3
\* Number of setTheme calls with an invalid theme.
MaxInvalidCalls == 1

\* Pixel quantities are held in hundredths of a pixel (the `/ 100` of the
\* percentage resolution).
PxUnit == 100

Px(n) == n * PxUnit

\* ------------------------------------------------------- JavaScript values
Num(n) == [t |-> "num", v |-> n]
NaN == [t |-> "nan", v |-> 0]
Infinity == [t |-> "inf", v |-> 1]
NegInfinity == [t |-> "inf", v |-> -1]
Undefined == [t |-> "undefined", v |-> 0]
Null == [t |-> "null", v |-> 0]

IsNum(x) == x.t = "num"
IsNaN(x) == x.t = "nan"
Sign(n) == IF n < 0 THEN -1 ELSE 1
InfOf(s) == IF s < 0 THEN NegInfinity ELSE Infinity

\* a < b and a <= b of two numbers: false when either is NaN.
JsLt(a, b) ==
  /\ ~IsNaN(a)
  /\ ~IsNaN(b)
  /\ IF a.t = "inf" /\ b.t = "inf" THEN a.v < b.v
     ELSE IF a.t = "inf" THEN a.v < 0
     ELSE IF b.t = "inf" THEN b.v > 0
     ELSE a.v < b.v

JsLe(a, b) ==
  /\ ~IsNaN(a)
  /\ ~IsNaN(b)
  /\ IF a.t = "inf" /\ b.t = "inf" THEN a.v <= b.v
     ELSE IF a.t = "inf" THEN a.v < 0
     ELSE IF b.t = "inf" THEN b.v > 0
     ELSE a.v <= b.v

\* Math.max(a, b), Math.min(a, b): NaN when either argument is NaN.
MathMax(a, b) == IF IsNaN(a) \/ IsNaN(b) THEN NaN ELSE IF JsLt(a, b) THEN b ELSE a
MathMin(a, b) == IF IsNaN(a) \/ IsNaN(b) THEN NaN ELSE IF JsLt(b, a) THEN b ELSE a

\* a + b, a - b, a * b
JsAdd(a, b) ==
  IF IsNaN(a) \/ IsNaN(b) THEN NaN
  ELSE IF a.t = "inf" /\ b.t = "inf" THEN (IF a.v = b.v THEN a ELSE NaN)
  ELSE IF a.t = "inf" THEN a
  ELSE IF b.t = "inf" THEN b
  ELSE Num(a.v + b.v)

JsNeg(a) == IF a.t = "num" THEN Num(-a.v) ELSE IF a.t = "inf" THEN InfOf(-a.v) ELSE a

JsSub(a, b) == JsAdd(a, JsNeg(b))

JsMul(a, b) ==
  IF IsNaN(a) \/ IsNaN(b) THEN NaN
  ELSE IF a.t = "inf" \/ b.t = "inf"
    THEN (IF a.v = 0 \/ b.v = 0 THEN NaN ELSE InfOf(Sign(a.v) * Sign(b.v)))
  ELSE Num(a.v * b.v)

\* floor(p / q) and ceil(p / q) of integers, q # 0.
FloorQ(p, q) == IF q > 0 THEN p \div q ELSE (-p) \div (-q)
CeilQ(p, q) == -FloorQ(-p, q)

\* The value of a / b when it is not a finite quotient: "fin" otherwise.
DivSpecial(a, b) ==
  IF IsNaN(a) \/ IsNaN(b) THEN NaN
  ELSE IF a.t = "inf" /\ b.t = "inf" THEN NaN
  ELSE IF a.t = "inf" THEN InfOf(a.v * Sign(b.v))
  ELSE IF b.t = "inf" THEN Num(0)
  ELSE IF b.v = 0 THEN (IF a.v = 0 THEN NaN ELSE InfOf(Sign(a.v)))
  ELSE [t |-> "fin", v |-> 0]

\* Math.floor(a / b), Math.ceil(a / b)
MathFloorDiv(a, b) ==
  LET s == DivSpecial(a, b) IN IF s.t = "fin" THEN Num(FloorQ(a.v, b.v)) ELSE s

MathCeilDiv(a, b) ==
  LET s == DivSpecial(a, b) IN IF s.t = "fin" THEN Num(CeilQ(a.v, b.v)) ELSE s

\* Truthiness of a value: 0, NaN, undefined and null are falsy.
Truthy(x) ==
  IF x.t = "num" THEN x.v # 0
  ELSE IF x.t = "inf" THEN TRUE
  ELSE FALSE

\* a || b
JsOr(a, b) == IF Truthy(a) THEN a ELSE b

\* ----------------------------------------------------------------- strings
\* A string is a tuple of one-character strings.
Digits == {"0", "1", "2", "3", "4", "5", "6", "7", "8", "9"}
DigitVal ==
  "0" :> 0 @@ "1" :> 1 @@ "2" :> 2 @@ "3" :> 3 @@ "4" :> 4 @@
  "5" :> 5 @@ "6" :> 6 @@ "7" :> 7 @@ "8" :> 8 @@ "9" :> 9

\* s.includes(c)
Includes(s, c) == \E i \in 1..Len(s) : s[i] = c

\* The value of the longest run of digits of s that starts at position i,
\* given the value acc of the digits before it.
RECURSIVE DigitRun(_, _, _)
DigitRun(s, i, acc) ==
  IF i <= Len(s) /\ s[i] \in Digits
    THEN DigitRun(s, i + 1, acc * 10 + DigitVal[s[i]])
    ELSE acc

\* parseFloat(s) for strings without a decimal point or an exponent: an
\* optional sign, then the longest prefix of digits; NaN when there is none.
ParseFloat(s) ==
  LET neg == Len(s) >= 1 /\ s[1] = "-"
      first == IF Len(s) >= 1 /\ s[1] \in {"-", "+"} THEN 2 ELSE 1
  IN IF first <= Len(s) /\ s[first] \in Digits
       THEN Num((IF neg THEN -1 ELSE 1) * DigitRun(s, first, 0))
       ELSE NaN

\* ---------------------------------------------------------------- datasets
\* props.data is held as a descriptor [len, kind]; Item(d, j) is d[j], the
\* record at 0-based position j.  Kind "demo" is what generateData builds
\* (id = 1, 2, ...); kind "mixed" has a null id at 0, the id 0 at 1 and no id
\* at 2.  A field an item lacks reads as undefined.
Item(d, j) ==
  IF d.kind = "demo"
    THEN [id |-> Num(j + 1), title |-> Num(j + 1)]
    ELSE [id |-> IF j = 0 THEN Null
                 ELSE IF j = 1 THEN Num(0)
                 ELSE IF j = 2 THEN Undefined
                 ELSE Num(10 + j),
          title |-> Num(100 + j)]

\* item[field]
GetField(item, field) == IF field \in DOMAIN item THEN item[field] ELSE Undefined

Max2(a, b) == IF a < b THEN b ELSE a
Min2(a, b) == IF a < b THEN a ELSE b

\* The position an argument of Array.prototype.slice denotes in an array of
\* length len: NaN is 0, a negative value counts from the end.
RelativeIndex(x, len) ==
  IF IsNaN(x) THEN 0
  ELSE IF x.t = "inf" THEN (IF x.v < 0 THEN 0 ELSE len)
  ELSE IF x.v < 0 THEN Max2(len + x.v, 0)
  ELSE Min2(x.v, len)

\* d.slice(start, end)
ArraySlice(d, start, end) ==
  LET k == RelativeIndex(start, d.len)
      final == RelativeIndex(end, d.len)
  IN [i \in 1..Max2(final - k, 0) |-> Item(d, k + i - 1)]

\* ------------------------------------------------------------------- state
VARIABLES
  data,             \* props.data
  height,           \* props.height: a number or a string
  itemHeight,       \* props.itemHeight
  keyFieldProp,     \* props.keyField; "" when not supplied
  bufferProp,       \* props.buffer; Undefined when not supplied
  scrollTop,        \* ref scrollTop
  containerHeight,  \* ref containerHeight
  lifecycle,        \* "setup" (set up and first rendered), "mounted", "unmounted"
  resizeListeners,  \* listeners of this component on window "resize"
  parent,           \* containerRef.value.parentElement and its clientHeight
  targetScrollTop,  \* (e.target).scrollTop of the latest scroll event
  options,          \* useTable: the options as passed at construction
  tableData,        \* useTable: ref tableData
  loading,          \* useTable: ref loading
  pagination,       \* useTable: reactive pagination
  sortInfo,         \* useTable: reactive sortInfo
  filters,          \* useTable: the object behind filters and defaultFilters
  pending,          \* useTable: the fetchData calls not yet settled, oldest first
  fetchCalls,       \* useTable: the number of fetchData calls made so far
  latestFetch,      \* useTable: how the most recent fetchData call has fared
  uncaught,         \* useTable: a loadData promise has rejected
  currentTheme,         \* ThemeManager: currentTheme
  storedTheme,          \* localStorage 'theme'; "" when there is none
  systemDark,           \* matchMedia('(prefers-color-scheme: dark)').matches
  rootDark,             \* document.documentElement has the class 'dark'
  systemListening,      \* the 'change' listener on the media query is registered
  themeChangeHandlers,  \* ThemeManager: themeChangeHandlers, each entry tagged
                        \* with the number of its registration
  registrations,        \* the handler of each onThemeChange call made so far
  unsubscribed,         \* registrations whose returned function has been called
  notified,             \* registrations called by the latest notification
  invalidThemeErrors    \* 'Invalid theme type' errors logged

listVars == <<data, height, itemHeight, keyFieldProp, bufferProp, scrollTop,
              containerHeight, lifecycle, resizeListeners, parent, targetScrollTop>>

tableVars == <<options, tableData, loading, pagination, sortInfo, filters, pending,
               fetchCalls, latestFetch, uncaught>>

themeVars == <<currentTheme, storedTheme, systemDark, rootDark, systemListening,
               themeChangeHandlers, registrations, unsubscribed, notified,
               invalidThemeErrors>>

vars == <<listVars, tableVars, themeVars>>

defaultKeyField == "id"
defaultBuffer == 5

\* ------------------------------------------------------- computed properties
keyField == IF keyFieldProp # "" THEN keyFieldProp ELSE defaultKeyField

buffer == JsOr(bufferProp, Num(defaultBuffer))

startIndex_NoBuffer == MathFloorDiv(MathMax(Num(0), scrollTop), itemHeight)

startIndex_ViewportMargin ==
  MathFloorDiv(MathMax(Num(0), JsSub(scrollTop, containerHeight)), itemHeight)

startIndex ==
  MathFloorDiv(MathMax(Num(0), JsSub(scrollTop, JsMul(buffer, itemHeight))), itemHeight)

endIndex_Unclamped ==
  MathCeilDiv(JsAdd(JsAdd(scrollTop, containerHeight), JsMul(buffer, itemHeight)),
              itemHeight)

endIndex_PlusOne ==
  MathMin(Num(data.len - 1),
          JsAdd(MathCeilDiv(JsAdd(JsAdd(scrollTop, containerHeight),
                                  JsMul(buffer, itemHeight)),
                            itemHeight),
                Num(1)))

endIndex ==
  MathMin(Num(data.len - 1),
          MathCeilDiv(JsAdd(JsAdd(scrollTop, containerHeight), JsMul(buffer, itemHeight)),
                      itemHeight))

visibleData == ArraySlice(data, startIndex, JsAdd(endIndex, Num(1)))

offsetY == JsMul(startIndex, itemHeight)

totalHeight_FillContainer == MathMax(JsMul(Num(data.len), itemHeight), containerHeight)

totalHeight == JsMul(Num(data.len), itemHeight)

\* The rows the template emits: for each (item, index) of visibleData the
\* v-for key and the index handed to the slot.
Rendered ==
  [i \in 1..Len(visibleData) |->
     LET item == visibleData[i]
         index == Num(i - 1)
     IN [item |-> item,
         key |-> JsOr(GetField(item, keyField), index),
         index |-> JsAdd(startIndex, index)]]

\* ------------------------------------------------------------------ inputs
HeightNumber(n) == [type |-> "number", n |-> n, s |-> <<>>]
HeightString(s) == [type |-> "string", n |-> 0, s |-> s]

Heights ==
  { HeightNumber(600), HeightNumber(0), HeightNumber(-600),
    HeightString(<<"6", "0", "0", "p", "x">>),
    HeightString(<<"5", "0", "%">>),
    HeightString(<<"a", "u", "t", "o">>) }

DataLens == {0, 1, 3, MaxLen}
Datasets ==
  {d \in [len : DataLens, kind : {"demo", "mixed"}] : d.len = 0 => d.kind = "demo"}

ItemHeights == {Num(Px(h)) : h \in {-60, 0, 40, 60}}
BufferProps == {Undefined, Num(0), Num(1), Num(3)}
KeyFieldProps == {"", "id", "title"}
ScrollOffsets == {Num(Px(s)) : s \in {0, 30, 100, 210}}
Parents ==
  {[attached |-> FALSE, clientHeight |-> 0]}
    \cup {[attached |-> TRUE, clientHeight |-> 300 * k] : k \in 0..MaxParentSteps}

\* ----------------------------------------------------------------- actions
\* The value updateContainerHeight leaves in containerHeight, given whether
\* containerRef is set and the declared height h.
updateContainerHeight(refSet, h) ==
  IF refSet
    THEN IF h.type = "number"
           THEN Num(Px(h.n))
           ELSE IF Includes(h.s, "%")
             THEN LET percentage == ParseFloat(h.s)
                  IN IF parent.attached
                       THEN IF IsNum(percentage)
                              THEN Num((parent.clientHeight * percentage.v * PxUnit) \div 100)
                              ELSE NaN
                       ELSE containerHeight
             ELSE LET parsed == ParseFloat(h.s)
                  IN IF IsNum(parsed) THEN Num(Px(parsed.v)) ELSE NaN
    ELSE containerHeight

\* onMounted: the container ref is set, the height is measured, the resize
\* listener is registered.
Mount ==
  /\ lifecycle = "setup"
  /\ lifecycle' = "mounted"
  /\ containerHeight' = updateContainerHeight(TRUE, height)
  /\ resizeListeners' = resizeListeners + 1
  /\ UNCHANGED tableVars
  /\ UNCHANGED themeVars
  /\ UNCHANGED <<targetScrollTop, data, height, itemHeight, keyFieldProp, bufferProp, scrollTop, parent>>

Unmount_KeepsListener ==
  /\ lifecycle = "mounted"
  /\ lifecycle' = "unmounted"
  /\ UNCHANGED tableVars
  /\ UNCHANGED themeVars
  /\ UNCHANGED <<targetScrollTop, data, height, itemHeight, keyFieldProp, bufferProp, scrollTop,
                 containerHeight, resizeListeners, parent>>

\* onUnmounted: the listener is removed; the container ref is unset with the
\* element.
Unmount ==
  /\ lifecycle = "mounted"
  /\ lifecycle' = "unmounted"
  /\ resizeListeners' = resizeListeners - 1
  /\ UNCHANGED tableVars
  /\ UNCHANGED themeVars
  /\ UNCHANGED <<targetScrollTop, data, height, itemHeight, keyFieldProp, bufferProp, scrollTop,
                 containerHeight, parent>>

\* The largest offset the scroll container can report: the height of its
\* content (the wrapper, totalHeight) less its own height.
maxScrollTop ==
  LET viewport == IF IsNum(containerHeight) THEN MathMax(Num(0), containerHeight)
                  ELSE Num(0)
  IN MathMax(Num(0), JsSub(totalHeight, viewport))

handleScroll_Snapped(px) ==
  /\ lifecycle = "mounted"
  /\ px # scrollTop
  /\ JsLe(px, maxScrollTop)
  /\ scrollTop' = JsMul(MathFloorDiv(px, itemHeight), itemHeight)
  /\ targetScrollTop' = px
  /\ UNCHANGED tableVars
  /\ UNCHANGED themeVars
  /\ UNCHANGED <<data, height, itemHeight, keyFieldProp, bufferProp, containerHeight,
                 lifecycle, resizeListeners, parent>>

\* handleScroll: the scroll container reports its offset.
handleScroll(px) ==
  /\ lifecycle = "mounted"
  /\ px # scrollTop
  /\ JsLe(px, maxScrollTop)
  /\ scrollTop' = px
  /\ targetScrollTop' = px
  /\ UNCHANGED tableVars
  /\ UNCHANGED themeVars
  /\ UNCHANGED <<data, height, itemHeight, keyFieldProp, bufferProp, containerHeight,
                 lifecycle, resizeListeners, parent>>

\* A window "resize" event: it runs updateContainerHeight when the listener
\* of this component is registered, and nothing of it otherwise.
WindowResize ==
  /\ containerHeight' =
       IF resizeListeners > 0
         THEN updateContainerHeight(lifecycle = "mounted", height)
         ELSE containerHeight
  /\ UNCHANGED tableVars
  /\ UNCHANGED themeVars
  /\ UNCHANGED <<targetScrollTop, data, height, itemHeight, keyFieldProp, bufferProp, scrollTop,
                 lifecycle, resizeListeners, parent>>

SetHeight_Unwatched(h) ==
  /\ lifecycle = "mounted"
  /\ h # height
  /\ height' = h
  /\ UNCHANGED tableVars
  /\ UNCHANGED themeVars
  /\ UNCHANGED <<targetScrollTop, data, itemHeight, keyFieldProp, bufferProp, scrollTop,
                 containerHeight, lifecycle, resizeListeners, parent>>

\* props.height changes: the watcher re-measures.
SetHeight(h) ==
  /\ lifecycle = "mounted"
  /\ h # height
  /\ height' = h
  /\ containerHeight' = updateContainerHeight(TRUE, h)
  /\ UNCHANGED tableVars
  /\ UNCHANGED themeVars
  /\ UNCHANGED <<targetScrollTop, data, itemHeight, keyFieldProp, bufferProp, scrollTop, lifecycle,
                 resizeListeners, parent>>

\* props.data is replaced.
SetData(d) ==
  /\ lifecycle = "mounted"
  /\ d # data
  /\ data' = d
  /\ UNCHANGED tableVars
  /\ UNCHANGED themeVars
  /\ UNCHANGED <<targetScrollTop, height, itemHeight, keyFieldProp, bufferProp, scrollTop,
                 containerHeight, lifecycle, resizeListeners, parent>>

\* props.itemHeight changes.
SetItemHeight(h) ==
  /\ lifecycle = "mounted"
  /\ h # itemHeight
  /\ itemHeight' = h
  /\ UNCHANGED tableVars
  /\ UNCHANGED themeVars
  /\ UNCHANGED <<targetScrollTop, data, height, keyFieldProp, bufferProp, scrollTop, containerHeight,
                 lifecycle, resizeListeners, parent>>

\* The parent element is laid out anew (or attached, or detached).
ParentLayout(p) ==
  /\ lifecycle = "mounted"
  /\ p # parent
  /\ parent' = p
  /\ UNCHANGED tableVars
  /\ UNCHANGED themeVars
  /\ UNCHANGED <<targetScrollTop, data, height, itemHeight, keyFieldProp, bufferProp, scrollTop,
                 containerHeight, lifecycle, resizeListeners>>

\* --------------------------------------------------------- useTable (hook)
\* Objects with string keys are functions; {} is the empty function.
EmptyObject == <<>>

ObjectKeys(o) == DOMAIN o

\* Object.assign(target, source): the contents of target afterwards.
ObjectAssign(target, source) ==
  [k \in DOMAIN target \cup DOMAIN source |->
     IF k \in DOMAIN source THEN source[k] ELSE target[k]]

\* delete o[key]
ObjectDelete(o, key) == [k \in DOMAIN o \ {key} |-> o[k]]

\* keys.forEach(key => { delete o[key] })
RECURSIVE DeleteKeys(_, _)
DeleteKeys(o, keys) ==
  IF keys = {} THEN o
  ELSE LET key == CHOOSE k \in keys : TRUE
       IN DeleteKeys(ObjectDelete(o, key), keys \ {key})

\* Inputs of the hook.
TableOptions ==
  [defaultCurrent : {1}, defaultPageSize : {10},
   defaultFilters : {EmptyObject, [status |-> 1]}, autoLoad : BOOLEAN]
Pages == {1, 2}
PageSizes == {10, 20}
SortInfos == {[columnKey |-> "", order |-> ""], [columnKey |-> "name", order |-> "asc"]}
NewFilters == {[keyword |-> 1], [status |-> 2]}
Totals == {0, 25}

\* filters = reactive(defaultFilters) is a proxy of the very object that was
\* passed in: defaultFilters and filters name one object.
defaultFilters == filters

\* The argument loadData hands to fetchData.
FetchParams(pag, sort, flt) ==
  [page |-> pag.current,
   pageSize |-> pag.pageSize,
   sort |-> IF Cardinality(ObjectKeys(sort)) > 0 THEN sort ELSE Undefined,
   filters |-> IF Cardinality(ObjectKeys(flt)) > 0 THEN flt ELSE Undefined]

\* The most recent fetchData call is the last of pending for as long as it
\* is pending.
FetchPending == [status |-> "pending", total |-> 0]
NoFetch == [status |-> "none", total |-> 0]
IsLatest(i) == latestFetch = FetchPending /\ i = Len(pending)

\* What a fetchData call answers: rows for its parameters, and a total.
FetchResult(params, total) == [data |-> <<params>>, total |-> total]

loadData_KeepsPage(resetPagination, pag, sort, flt) ==
  /\ fetchCalls < MaxFetches
  /\ pagination' = pag
  /\ loading' = TRUE
  /\ pending' = Append(pending, FetchParams(pag, sort, flt))
  /\ fetchCalls' = fetchCalls + 1
  /\ latestFetch' = FetchPending
  /\ sortInfo' = sort
  /\ filters' = flt
  /\ UNCHANGED <<options, tableData, uncaught>>
  /\ UNCHANGED listVars
  /\ UNCHANGED themeVars

\* loadData up to its await, called when pagination, sortInfo and filters
\* hold pag, sort and flt: the page is reset when asked, loading is set and
\* fetchData is called.
loadData(resetPagination, pag, sort, flt) ==
  LET paged == IF resetPagination THEN [pag EXCEPT !.current = 1] ELSE pag
  IN /\ fetchCalls < MaxFetches
     /\ pagination' = paged
     /\ loading' = TRUE
     /\ pending' = Append(pending, FetchParams(paged, sort, flt))
     /\ fetchCalls' = fetchCalls + 1
     /\ latestFetch' = FetchPending
     /\ sortInfo' = sort
     /\ filters' = flt
     /\ UNCHANGED <<options, tableData, uncaught>>
     /\ UNCHANGED listVars
     /\ UNCHANGED themeVars

Remove(seq, i) == [j \in 1..(Len(seq) - 1) |-> IF j < i THEN seq[j] ELSE seq[j + 1]]

\* loadData after its await, when the i-th pending fetchData call resolves.
fetchDataResolves(i, total) ==
  /\ i \in 1..Len(pending)
  /\ latestFetch' = IF IsLatest(i) THEN [status |-> "resolved", total |-> total]
                    ELSE latestFetch
  /\ LET result == FetchResult(pending[i], total)
     IN /\ tableData' = result.data
        /\ pagination' = [pagination EXCEPT !.total = result.total]
  /\ loading' = FALSE
  /\ pending' = Remove(pending, i)
  /\ UNCHANGED <<options, sortInfo, filters, fetchCalls, uncaught>>
  /\ UNCHANGED listVars
  /\ UNCHANGED themeVars

fetchDataRejects_Uncaught(i) ==
  /\ i \in 1..Len(pending)
  /\ latestFetch' = IF IsLatest(i) THEN [status |-> "rejected", total |-> 0]
                    ELSE latestFetch
  /\ loading' = FALSE
  /\ uncaught' = TRUE
  /\ pending' = Remove(pending, i)
  /\ UNCHANGED <<options, tableData, pagination, sortInfo, filters, fetchCalls>>
  /\ UNCHANGED listVars
  /\ UNCHANGED themeVars

\* loadData after its await, when the i-th pending fetchData call rejects:
\* the catch block logs the error, the finally block clears loading.
fetchDataRejects(i) ==
  /\ i \in 1..Len(pending)
  /\ latestFetch' = IF IsLatest(i) THEN [status |-> "rejected", total |-> 0]
                    ELSE latestFetch
  /\ loading' = FALSE
  /\ pending' = Remove(pending, i)
  /\ UNCHANGED <<options, tableData, pagination, sortInfo, filters, fetchCalls,
                 uncaught>>
  /\ UNCHANGED listVars
  /\ UNCHANGED themeVars

handlePageChange(current) ==
  loadData(FALSE, [pagination EXCEPT !.current = current], sortInfo, filters)

handlePageSizeChange_KeepsPage(pageSize) ==
  loadData(FALSE, [pagination EXCEPT !.pageSize = pageSize], sortInfo, filters)

handlePageSizeChange(pageSize) ==
  loadData(FALSE, [pagination EXCEPT !.pageSize = pageSize, !.current = 1],
           sortInfo, filters)

handleSortChange(newSortInfo) ==
  loadData(TRUE, pagination,
           [columnKey |-> newSortInfo.columnKey, order |-> newSortInfo.order],
           filters)

handleFilterChange(newFilters) ==
  loadData(TRUE, pagination, sortInfo, ObjectAssign(filters, newFilters))

\* resetFilters: every key of filters is deleted, which empties the object
\* defaultFilters names too; then that object is assigned onto itself.
resetFilters ==
  LET cleared == DeleteKeys(filters, ObjectKeys(filters))
      defaultsNow == cleared
  IN loadData(TRUE, pagination, sortInfo, ObjectAssign(cleared, defaultsNow))

refresh_ResetsPage == loadData(TRUE, pagination, sortInfo, filters)

refresh == loadData(FALSE, pagination, sortInfo, filters)

\* The theme manager's variables when it is left alone: constructed with no
\* saved theme under a light system preference.
ThemeUnused ==
  /\ currentTheme = "system"
  /\ storedTheme = ""
  /\ systemDark = FALSE
  /\ rootDark = FALSE
  /\ systemListening = TRUE
  /\ themeChangeHandlers = <<>>
  /\ registrations = <<>>
  /\ unsubscribed = {}
  /\ notified = <<>>
  /\ invalidThemeErrors = 0

\* The hook's variables when no table is in use.
TableUnused ==
  /\ options = [defaultCurrent |-> 1, defaultPageSize |-> 10,
                defaultFilters |-> EmptyObject, autoLoad |-> FALSE]
  /\ tableData = <<>>
  /\ loading = FALSE
  /\ pagination = [current |-> 1, pageSize |-> 10, total |-> 0]
  /\ sortInfo = [columnKey |-> "", order |-> ""]
  /\ filters = EmptyObject
  /\ pending = <<>>
  /\ fetchCalls = 0
  /\ latestFetch = NoFetch
  /\ uncaught = FALSE

\* The list's variables when no list is in use.
ListUnused ==
  /\ data = [len |-> 0, kind |-> "demo"]
  /\ height = HeightNumber(0)
  /\ itemHeight = Num(Px(60))
  /\ keyFieldProp = ""
  /\ bufferProp = Undefined
  /\ scrollTop = Num(0)
  /\ containerHeight = Num(0)
  /\ lifecycle = "unmounted"
  /\ resizeListeners = 0
  /\ parent = [attached |-> FALSE, clientHeight |-> 0]
  /\ targetScrollTop = Num(0)

\* The state useTable returns in: the refs and reactives as constructed and,
\* with autoLoad, the first loadData already waiting for its fetch.
InitTable ==
  /\ ListUnused
  /\ ThemeUnused
  /\ options \in TableOptions
  /\ tableData = <<>>
  /\ pagination = [current |-> options.defaultCurrent,
                   pageSize |-> options.defaultPageSize, total |-> 0]
  /\ sortInfo = [columnKey |-> "", order |-> ""]
  /\ filters = options.defaultFilters
  /\ loading = options.autoLoad
  /\ pending = IF options.autoLoad
                 THEN <<FetchParams(pagination, sortInfo, filters)>>
                 ELSE <<>>
  /\ fetchCalls = Len(pending)
  /\ latestFetch = IF options.autoLoad THEN FetchPending ELSE NoFetch
  /\ uncaught = FALSE

NextTable ==
  \/ \E current \in Pages : handlePageChange(current)
  \/ \E pageSize \in PageSizes : handlePageSizeChange(pageSize)
  \/ \E newSortInfo \in SortInfos : handleSortChange(newSortInfo)
  \/ \E newFilters \in NewFilters : handleFilterChange(newFilters)
  \/ resetFilters
  \/ refresh
  \/ \E i \in 1..MaxFetches, total \in Totals : fetchDataResolves(i, total)
  \/ \E i \in 1..MaxFetches : fetchDataRejects(i)

SpecTable == InitTable /\ [][NextTable]_vars

\* ------------------------------------------------------------ ThemeManager
ValidThemes == {"light", "dark", "system"}

isValidTheme(theme) == theme \in ValidThemes

\* Arguments setTheme is called with, and values found under 'theme' in
\* local storage at construction ("" stands for no value).
ThemeArguments == ValidThemes \cup {"blue"}
SavedThemes == ThemeArguments \cup {""}

\* The functions registered as handlers.
HandlerFunctions == {"f", "g"}

\* isDarkMode for a current theme and system preference
isDarkMode(theme, prefersDark) ==
  IF theme = "dark" THEN TRUE
  ELSE IF theme = "light" THEN FALSE
  ELSE prefersDark

\* notifyThemeChangeHandlers: every handler of the list is called in order;
\* a handler that throws is caught and logged and the loop goes on.
notifyThemeChangeHandlers(handlers) == [i \in 1..Len(handlers) |-> handlers[i].reg]

\* applyTheme for a current theme: the 'dark' class of the document root is
\* set to isDarkMode and the handlers are notified.
applyTheme(theme) ==
  /\ rootDark' = isDarkMode(theme, systemDark')
  /\ notified' = notifyThemeChangeHandlers(themeChangeHandlers)

setTheme_Unsaved(theme) ==
  IF ~isValidTheme(theme)
    THEN /\ invalidThemeErrors < MaxInvalidCalls
         /\ invalidThemeErrors' = invalidThemeErrors + 1
         /\ UNCHANGED <<currentTheme, storedTheme, systemDark, rootDark, systemListening,
                        themeChangeHandlers, registrations, unsubscribed, notified>>
    ELSE /\ currentTheme' = theme
         /\ systemDark' = systemDark
         /\ applyTheme(theme)
         /\ UNCHANGED <<storedTheme, systemListening, themeChangeHandlers, registrations,
                        unsubscribed, invalidThemeErrors>>

\* setTheme: an invalid theme is logged and nothing else happens; a valid
\* one is stored, persisted and applied.
setTheme(theme) ==
  IF ~isValidTheme(theme)
    THEN /\ invalidThemeErrors < MaxInvalidCalls
         /\ invalidThemeErrors' = invalidThemeErrors + 1
         /\ UNCHANGED <<currentTheme, storedTheme, systemDark, rootDark, systemListening,
                        themeChangeHandlers, registrations, unsubscribed, notified>>
    ELSE /\ currentTheme' = theme
         /\ storedTheme' = theme
         /\ systemDark' = systemDark
         /\ applyTheme(theme)
         /\ UNCHANGED <<systemListening, themeChangeHandlers, registrations,
                        unsubscribed, invalidThemeErrors>>

SetTheme(theme) ==
  /\ setTheme(theme)
  /\ UNCHANGED listVars
  /\ UNCHANGED tableVars

getTheme == currentTheme

themes == <<"light", "dark", "system">>

\* themes.indexOf(theme), counted from 0; -1 when absent
IndexOf(theme) ==
  IF \E i \in 1..Len(themes) : themes[i] = theme
    THEN (CHOOSE i \in 1..Len(themes) :
            themes[i] = theme /\ \A j \in 1..(i - 1) : themes[j] # theme) - 1
    ELSE -1

cycleTheme_Unsaved ==
  LET currentIndex == IndexOf(currentTheme)
      nextIndex == (currentIndex + 1) % Len(themes)
  IN /\ setTheme_Unsaved(themes[nextIndex + 1])
     /\ UNCHANGED listVars
     /\ UNCHANGED tableVars

cycleTheme ==
  LET currentIndex == IndexOf(currentTheme)
      nextIndex == (currentIndex + 1) % Len(themes)
  IN /\ setTheme(themes[nextIndex + 1])
     /\ UNCHANGED listVars
     /\ UNCHANGED tableVars

SystemThemeChange_Unheard ==
  /\ systemDark' = ~systemDark
  /\ UNCHANGED <<rootDark, notified>>
  /\ UNCHANGED <<currentTheme, storedTheme, systemListening, themeChangeHandlers,
                 registrations, unsubscribed, invalidThemeErrors>>
  /\ UNCHANGED listVars
  /\ UNCHANGED tableVars

\* The system colour scheme changes: the 'change' listener, while it is
\* registered, applies the theme when the current theme is 'system'.
SystemThemeChange ==
  /\ systemDark' = ~systemDark
  /\ IF systemListening /\ currentTheme = "system"
       THEN applyTheme(currentTheme)
       ELSE UNCHANGED <<rootDark, notified>>
  /\ UNCHANGED <<currentTheme, storedTheme, systemListening, themeChangeHandlers,
                 registrations, unsubscribed, invalidThemeErrors>>
  /\ UNCHANGED listVars
  /\ UNCHANGED tableVars

\* 'beforeunload': the 'change' listener is removed.
BeforeUnload ==
  /\ systemListening
  /\ systemListening' = FALSE
  /\ UNCHANGED <<currentTheme, storedTheme, systemDark, rootDark, themeChangeHandlers,
                 registrations, unsubscribed, notified, invalidThemeErrors>>
  /\ UNCHANGED listVars
  /\ UNCHANGED tableVars

\* onThemeChange(handler): the function is pushed; the registration is
\* numbered so that the function it returns can be told from the others.
onThemeChange(handler) ==
  /\ Len(registrations) < MaxRegistrations
  /\ registrations' = Append(registrations, handler)
  /\ themeChangeHandlers' =
       Append(themeChangeHandlers, [fn |-> handler, reg |-> Len(registrations) + 1])
  /\ UNCHANGED <<currentTheme, storedTheme, systemDark, rootDark, systemListening,
                 unsubscribed, notified, invalidThemeErrors>>
  /\ UNCHANGED listVars
  /\ UNCHANGED tableVars

\* The function onThemeChange returned for registration reg is called: the
\* list is filtered by h !== handler.
Unsubscribe(reg) ==
  /\ reg \in 1..Len(registrations)
  /\ reg \notin unsubscribed
  /\ LET handler == registrations[reg]
     IN themeChangeHandlers' = SelectSeq(themeChangeHandlers, LAMBDA h : h.fn # handler)
  /\ unsubscribed' = unsubscribed \cup {reg}
  /\ UNCHANGED <<currentTheme, storedTheme, systemDark, rootDark, systemListening,
                 registrations, notified, invalidThemeErrors>>
  /\ UNCHANGED listVars
  /\ UNCHANGED tableVars

\* The singleton after construction: initTheme has read local storage,
\* applied the theme and registered the listener.
InitTheme ==
  /\ ListUnused
  /\ TableUnused
  /\ storedTheme \in SavedThemes
  /\ systemDark \in BOOLEAN
  /\ currentTheme = IF storedTheme # "" /\ isValidTheme(storedTheme) THEN storedTheme
                    ELSE "system"
  /\ rootDark = isDarkMode(currentTheme, systemDark)
  /\ systemListening = TRUE
  /\ themeChangeHandlers = <<>>
  /\ registrations = <<>>
  /\ unsubscribed = {}
  /\ notified = <<>>
  /\ invalidThemeErrors = 0

NextTheme ==
  \/ \E theme \in ThemeArguments : SetTheme(theme)
  \/ cycleTheme
  \/ SystemThemeChange
  \/ BeforeUnload
  \/ \E handler \in HandlerFunctions : onThemeChange(handler)
  \/ \E reg \in 1..MaxRegistrations : Unsubscribe(reg)

SpecTheme == InitTheme /\ [][NextTheme]_vars

Init ==
  /\ data \in Datasets
  /\ height \in Heights
  /\ itemHeight \in ItemHeights
  /\ keyFieldProp \in KeyFieldProps
  /\ bufferProp \in BufferProps
  /\ scrollTop = Num(0)
  /\ containerHeight = Num(0)
  /\ lifecycle = "setup"
  /\ resizeListeners = 0
  /\ parent \in Parents
  /\ targetScrollTop = Num(0)
  /\ TableUnused
  /\ ThemeUnused

Next ==
  \/ Mount
  \/ Unmount
  \/ \E px \in ScrollOffsets : handleScroll(px)
  \/ WindowResize
  \/ \E h \in Heights : SetHeight(h)
  \/ \E d \in Datasets : SetData(d)
  \/ \E h \in ItemHeights : SetItemHeight(h)
  \/ \E p \in Parents : ParentLayout(p)

Spec == Init /\ [][Next]_vars

TypeOK ==
  /\ data \in Datasets
  /\ lifecycle \in {"setup", "mounted", "unmounted"}
  /\ resizeListeners \in 0..1

\* The geometry of the component alone: the key field and the contents of
\* the items, which no window calculation reads, are held fixed.
GeometryDatasets == {d \in Datasets : d.kind = "demo"}

InitGeometry ==
  /\ Init
  /\ data \in GeometryDatasets
  /\ keyFieldProp = ""

NextGeometry ==
  \/ Mount
  \/ Unmount
  \/ \E px \in ScrollOffsets : handleScroll(px)
  \/ WindowResize
  \/ \E h \in Heights : SetHeight(h)
  \/ \E d \in GeometryDatasets : SetData(d)
  \/ \E h \in ItemHeights : SetItemHeight(h)
  \/ \E p \in Parents : ParentLayout(p)

SpecGeometry == InitGeometry /\ [][NextGeometry]_vars

\* ------------------------------------------------------- the demo host view
\* VirtualListDemo.vue: <VirtualList :data="listData" height="600px"
\* :itemHeight="itemHeight" keyField="id" :buffer="3">, shown only while the
\* view is not loading, so every loadData ends one instance and starts another.
DemoHeight == HeightString(<<"6", "0", "0", "p", "x">>)
DemoListSizes == {100, 10000, 100000}
DemoItemHeights == {Num(Px(50 + 10 * k)) : k \in 0..15}
DemoScrollOffsets == {Num(Px(s)) : s \in {0, 30, 600, 6000}}

generateData(count) == [len |-> count, kind |-> "demo"]

\* loadData of the view, once its timer has fired: listData is replaced and a
\* fresh VirtualList instance is set up in place of the one that was removed.
DemoLoadData(count) ==
  /\ lifecycle = "unmounted"
  /\ data' = generateData(count)
  /\ scrollTop' = Num(0)
  /\ containerHeight' = Num(0)
  /\ lifecycle' = "setup"
  /\ targetScrollTop' = Num(0)
  /\ UNCHANGED tableVars
  /\ UNCHANGED themeVars
  /\ UNCHANGED <<height, itemHeight, keyFieldProp, bufferProp, resizeListeners, parent>>

InitDemo ==
  /\ data = generateData(0)
  /\ height = DemoHeight
  /\ itemHeight = Num(Px(60))
  /\ keyFieldProp = "id"
  /\ bufferProp = Num(3)
  /\ scrollTop = Num(0)
  /\ containerHeight = Num(0)
  /\ lifecycle = "setup"
  /\ resizeListeners = 0
  /\ parent = [attached |-> TRUE, clientHeight |-> 600]
  /\ targetScrollTop = Num(0)
  /\ TableUnused
  /\ ThemeUnused

NextDemo ==
  \/ Mount
  \/ Unmount
  \/ \E px \in DemoScrollOffsets : handleScroll(px)
  \/ WindowResize
  \/ \E h \in DemoItemHeights : SetItemHeight(h)
  \/ \E count \in DemoListSizes : DemoLoadData(count)

SpecDemo == InitDemo /\ [][NextDemo]_vars

\* ------------------------------------------------------------------ claims
\* A configuration the interface allows: a positive item height and a
\* measured container height that is a non-negative number.
ValidGeometry ==
  /\ IsNum(itemHeight) /\ itemHeight.v > 0
  /\ IsNum(containerHeight) /\ containerHeight.v >= 0

\* A valid geometry whose container has been measured.
MeasuredGeometry == ValidGeometry /\ containerHeight.v > 0

\* C1: for a dataset of length L >= 1 (in a valid, measured geometry) the
\* window satisfies 0 <= startIndex <= endIndex <= L-1 in every reachable
\* state, also after the dataset is replaced by a shorter one while scrolled
\* down.
C1_WindowInRange ==
  (data.len >= 1 /\ MeasuredGeometry) =>
    /\ JsLe(Num(0), startIndex)
    /\ JsLe(startIndex, endIndex)
    /\ JsLe(endIndex, Num(data.len - 1))

\* endIndex - startIndex + 1, and ceil(containerHeight / itemHeight) + 2 * buffer
WindowSize == JsAdd(JsSub(endIndex, startIndex), Num(1))
ViewportPlusBuffers ==
  JsAdd(MathCeilDiv(containerHeight, itemHeight), JsMul(Num(2), buffer))

\* C2 (as claimed): in a valid, measured geometry, endIndex - startIndex + 1
\* <= ceil(containerHeight/itemHeight) + 2*buffer + 1.
C2_SliceBoundPlusOne ==
  MeasuredGeometry =>
    JsLe(WindowSize, JsAdd(ViewportPlusBuffers, Num(1)))

\* C2 (amended): for a positive item height and any numeric container
\* height, endIndex - startIndex + 1 <= ceil(containerHeight/itemHeight)
\* + 2*buffer + 2, whatever the dataset length.
C2_SliceBoundPlusTwo ==
  (IsNum(itemHeight) /\ itemHeight.v > 0 /\ IsNum(containerHeight)) =>
    JsLe(WindowSize, JsAdd(ViewportPlusBuffers, Num(2)))

\* C2 witness: a mounted list, scrolled by a fraction of an item, whose window
\* has exactly ceil(containerHeight/itemHeight) + 2*buffer + 2 items.
C2_Witness ==
  /\ lifecycle = "mounted"
  /\ IsNum(itemHeight) /\ itemHeight.v > 0 /\ IsNum(containerHeight)
  /\ containerHeight.v > 0
  /\ scrollTop.v > 0
  /\ WindowSize = JsAdd(ViewportPlusBuffers, Num(2))

\* C3: with itemHeight <= 0 a configuration error stops the component before
\* any window is computed: nothing is rendered, and no window index is ever
\* NaN or infinite.
C3_ItemHeightFailsFast ==
  /\ IsNum(startIndex)
  /\ IsNum(endIndex)
  /\ JsLe(itemHeight, Num(0)) => Rendered = <<>>

\* C4: (in a valid, measured geometry) every emitted row is keyed by item[keyField] when that is present and
\* not null (0 included), and otherwise by its absolute index in the dataset,
\* startIndex + its position in the slice.
C4_StableKeys ==
  MeasuredGeometry =>
    \A i \in 1..Len(Rendered) :
      LET k == GetField(Rendered[i].item, keyField)
      IN Rendered[i].key =
           IF k.t \notin {"undefined", "null"} THEN k ELSE JsAdd(startIndex, Num(i - 1))

\* The pairs (Dataset[j], j) for j = startIndex..endIndex.
WindowPairs ==
  IF IsNum(startIndex) /\ IsNum(endIndex)
    THEN [i \in 1..Max2(endIndex.v - startIndex.v + 1, 0) |->
            [item |-> Item(data, startIndex.v + i - 1),
             index |-> Num(startIndex.v + i - 1)]]
    ELSE <<>>

RenderedPairs ==
  [i \in 1..Len(Rendered) |-> [item |-> Rendered[i].item, index |-> Rendered[i].index]]

\* C5: every render pass emits exactly, in order, the pairs (Dataset[j], j)
\* for j = startIndex..endIndex, each j a position of the dataset.
C5_EmitsWindowPairs ==
  /\ RenderedPairs = WindowPairs
  /\ \A i \in 1..Len(Rendered) :
       JsLe(Num(0), Rendered[i].index) /\ JsLt(Rendered[i].index, Num(data.len))

\* C5 restricted to valid geometries.
C5_ValidGeometry == ValidGeometry => C5_EmitsWindowPairs

\* C6: totalHeight is the dataset length times the item height in every
\* reachable state, whatever the scroll offset, container height and window.
C6_TotalHeight == totalHeight = Num(data.len * itemHeight.v)

\* C6 witness: a mounted, measured and scrolled list that renders only a part
\* of a non-empty dataset.
C6_Witness ==
  /\ lifecycle = "mounted"
  /\ ValidGeometry
  /\ containerHeight.v > 0
  /\ scrollTop.v > 0
  /\ Len(visibleData) > 0
  /\ Len(visibleData) < data.len

\* C7: offsetY is startIndex times the item height, and startIndex is the
\* position in the dataset of the first item emitted.
C7_OffsetAlignsFirstItem ==
  /\ IsNum(startIndex)
  /\ offsetY = Num(startIndex.v * itemHeight.v)
  /\ Len(visibleData) > 0 => visibleData[1] = Item(data, startIndex.v)

\* C7 restricted to valid geometries.
C7_ValidGeometry == ValidGeometry => C7_OffsetAlignsFirstItem

\* The configuration of scenarios A and B: 100000 items of 60px in a 600px
\* container with a buffer of 3.
ScenarioConfig ==
  /\ data.len = 100000
  /\ itemHeight = Num(Px(60))
  /\ containerHeight = Num(Px(600))
  /\ buffer = Num(3)

\* C8: in that configuration the window is 0..13 (14 items) at scroll offset
\* 0 and 97..113 at scroll offset 6000.
C8_Scenarios ==
  ScenarioConfig =>
    /\ scrollTop = Num(Px(0)) =>
         startIndex = Num(0) /\ endIndex = Num(13) /\ Len(visibleData) = 14
    /\ scrollTop = Num(Px(6000)) =>
         startIndex = Num(97) /\ endIndex = Num(113) /\ Len(visibleData) = 17

\* C8 witness: the configuration, mounted and scrolled to 6000px.
C8_Witness == ScenarioConfig /\ lifecycle = "mounted" /\ scrollTop = Num(Px(6000))

\* C9: with an empty dataset the window holds no index, no item is emitted
\* and totalHeight is 0, whatever the scroll offset and container height.
C9_EmptyDataset ==
  data.len = 0 =>
    /\ ~(JsLe(startIndex, endIndex) /\ JsLe(Num(0), endIndex))
    /\ visibleData = <<>>
    /\ Rendered = <<>>
    /\ totalHeight = Num(0)

\* C9 witness: a mounted, measured list whose dataset was emptied while it
\* was scrolled down.
C9_Witness ==
  /\ data.len = 0
  /\ lifecycle = "mounted"
  /\ ValidGeometry
  /\ containerHeight.v > 0
  /\ scrollTop.v > 0

\* No measurement of the declared height has succeeded yet: the component is
\* not mounted yet, or a percentage height found no parent to resolve against.
Unmeasured ==
  \/ lifecycle = "setup"
  \/ /\ lifecycle = "mounted"
     /\ height.type = "string" /\ Includes(height.s, "%")
     /\ ~parent.attached
     /\ containerHeight = Num(0)

\* C10: until a container measurement has succeeded nothing is emitted, for
\* a non-empty dataset too.
C10_NothingBeforeMeasurement ==
  (Unmeasured /\ data.len >= 1 /\ IsNum(itemHeight) /\ itemHeight.v > 0) =>
    Rendered = <<>>

\* C11: the resize listener of the component is registered exactly while it
\* is mounted (none before mount, one while mounted, none after teardown),
\* and no step taken after teardown, a resize event included, changes
\* containerHeight or scrollTop.
C11_ResizeListenerScoped ==
  /\ [](resizeListeners = IF lifecycle = "mounted" THEN 1 ELSE 0)
  /\ [][lifecycle = "unmounted" =>
          (containerHeight' = containerHeight /\ scrollTop' = scrollTop)]_vars

\* C11 witness: a component torn down after its height was measured, with no
\* listener left.
C11_Witness ==
  /\ lifecycle = "unmounted"
  /\ resizeListeners = 0
  /\ IsNum(containerHeight) /\ containerHeight.v > 0

\* The window the calculation gives for scroll offset px and container height
\* ch, with the current item height, buffer and dataset.
WindowStartAt(px) ==
  MathFloorDiv(MathMax(Num(0), JsSub(px, JsMul(buffer, itemHeight))), itemHeight)
WindowEndAt(px, ch) ==
  MathMin(Num(data.len - 1),
          MathCeilDiv(JsAdd(JsAdd(px, ch), JsMul(buffer, itemHeight)), itemHeight))

\* C12: in every reachable state, so after any burst of scroll events, the
\* stored scroll offset is the raw offset of the most recent scroll event,
\* and the window, the slice and offsetY are those computed from that offset
\* and the current container height.
C12_LatestScrollWins ==
  LET start == WindowStartAt(targetScrollTop)
      end == WindowEndAt(targetScrollTop, containerHeight)
  IN /\ scrollTop = targetScrollTop
     /\ startIndex = start
     /\ endIndex = end
     /\ visibleData = ArraySlice(data, start, JsAdd(end, Num(1)))
     /\ offsetY = JsMul(start, itemHeight)

\* C12 witness: a measured list scrolled to an offset that is no multiple of
\* the item height, whose window has moved off the first item.
C12_Witness ==
  /\ lifecycle = "mounted"
  /\ MeasuredGeometry
  /\ scrollTop.v > 0
  /\ scrollTop.v % itemHeight.v # 0
  /\ startIndex.v > 0
  /\ Len(visibleData) > 0

\* A step that reduces a numeric container height and leaves the scroll
\* offset, item height, buffer and dataset as they are, for a positive item
\* height.
ContainerShrinks ==
  /\ IsNum(itemHeight) /\ itemHeight.v > 0
  /\ IsNum(containerHeight) /\ IsNum(containerHeight')
  /\ containerHeight'.v < containerHeight.v
  /\ UNCHANGED <<scrollTop, itemHeight, bufferProp, data>>

\* C13 (as claimed): reducing the container height of a non-empty list to
\* a smaller positive height leaves startIndex unchanged and shrinks the item
\* count of the window.
C13_ShrinkNarrowsStrictly ==
  [][(ContainerShrinks /\ containerHeight'.v > 0 /\ data.len >= 1) =>
       LET start == startIndex
           end == endIndex
           startAfter == startIndex'
           endAfter == endIndex'
       IN /\ startAfter = start
          /\ JsLt(JsAdd(JsSub(endAfter, startAfter), Num(1)),
                  JsAdd(JsSub(end, start), Num(1)))]_vars

\* C13 (amended): reducing the container height leaves startIndex unchanged
\* and never enlarges the window; the item count shrinks when the reduction
\* is at least one item height and the old endIndex was below L-1.
C13_ShrinkNarrowsFromEnd ==
  [][ContainerShrinks =>
       LET start == startIndex
           end == endIndex
           startAfter == startIndex'
           endAfter == endIndex'
       IN /\ startAfter = start
          /\ JsLe(endAfter, end)
          /\ (/\ containerHeight.v - containerHeight'.v >= itemHeight.v
              /\ JsLt(end, Num(data.len - 1)))
               => JsLt(JsAdd(JsSub(endAfter, startAfter), Num(1)),
                       JsAdd(JsSub(end, start), Num(1)))]_vars

\* C13 witness: a measured list whose container is smaller than the 600px it
\* can be declared with, its window ending before the last item.
C13_Witness ==
  /\ lifecycle = "mounted"
  /\ MeasuredGeometry
  /\ containerHeight.v < Px(600)
  /\ JsLt(endIndex, Num(data.len - 1))

\* C14: when the declared height (not a percentage) resolves to a value that
\* is not a positive number, a configuration error stops the component:
\* nothing is rendered for it.
C14_ContainerHeightFailsFast ==
  (/\ lifecycle = "mounted"
   /\ ~(height.type = "string" /\ Includes(height.s, "%"))
   /\ ~JsLt(Num(0), containerHeight)
   /\ data.len >= 1
   /\ IsNum(itemHeight) /\ itemHeight.v > 0) =>
    Rendered = <<>>

\* C16: the buffer of the calculation is the supplied buffer whenever one is
\* supplied, 0 included, and 5 only when none is supplied.
C16_BufferAsSupplied ==
  buffer = IF bufferProp = Undefined THEN Num(5) ELSE bufferProp


\* C17: loading is true exactly while at least one fetchData call of the
\* table has not settled.
C17_LoadingWhilePending == loading = (Len(pending) > 0)

\* C18: when a fetchData call rejects, loadData does not throw, loading is
\* false afterwards, and tableData and pagination.total are left as they
\* were.
C18_RejectionIsContained ==
  [][\A i \in 1..MaxFetches :
       fetchDataRejects(i) =>
         /\ uncaught' = FALSE
         /\ loading' = FALSE
         /\ tableData' = tableData
         /\ pagination'.total = pagination.total]_vars

\* Every fetch the table made has settled and none of them delivered rows:
\* they were rejected.
C18_Witness ==
  /\ fetchCalls >= 2
  /\ pending = <<>>
  /\ tableData = <<>>
  /\ loading = FALSE

\* C19: a resetFilters step leaves in filters the defaultFilters that were
\* passed at construction.
C19_ResetRestoresDefaults ==
  [][resetFilters => filters' = options.defaultFilters]_vars

\* The step sets the page to 1 and makes one more fetchData call, for page 1
\* and for the page size, sort and filters as they are after the step (empty
\* filters are handed over as undefined).
ResetsPageAndFetchesOnce ==
  /\ pagination'.current = 1
  /\ fetchCalls' = fetchCalls + 1
  /\ pending' = Append(pending,
                       [page |-> 1,
                        pageSize |-> pagination'.pageSize,
                        sort |-> sortInfo',
                        filters |-> IF filters' = EmptyObject THEN Undefined
                                    ELSE filters'])

\* C20: handlePageSizeChange, handleSortChange, handleFilterChange and
\* resetFilters each set pagination.current to 1 and issue exactly one fetch
\* for page 1 with the updated page size, sort and filters;
\* handleFilterChange merges the new keys into the filters.
C20_HandlersResetPage ==
  [][/\ \A pageSize \in PageSizes :
          handlePageSizeChange(pageSize) =>
            /\ ResetsPageAndFetchesOnce
            /\ pagination'.pageSize = pageSize
            /\ sortInfo' = sortInfo /\ filters' = filters
     /\ \A newSortInfo \in SortInfos :
          handleSortChange(newSortInfo) =>
            /\ ResetsPageAndFetchesOnce
            /\ sortInfo' = newSortInfo
            /\ pagination'.pageSize = pagination.pageSize /\ filters' = filters
     /\ \A newFilters \in NewFilters :
          handleFilterChange(newFilters) =>
            /\ ResetsPageAndFetchesOnce
            /\ DOMAIN filters' = DOMAIN filters \cup DOMAIN newFilters
            /\ \A k \in DOMAIN filters' :
                 filters'[k] = IF k \in DOMAIN newFilters THEN newFilters[k]
                               ELSE filters[k]
            /\ pagination'.pageSize = pagination.pageSize /\ sortInfo' = sortInfo
     /\ resetFilters =>
          /\ ResetsPageAndFetchesOnce
          /\ pagination'.pageSize = pagination.pageSize /\ sortInfo' = sortInfo]_vars

\* A fetch for page 1 is pending that carries a changed page size, a changed
\* sort and merged filters.
C20_Witness ==
  /\ pagination = [current |-> 1, pageSize |-> 20, total |-> 0]
  /\ pending # <<>>
  /\ pending[Len(pending)] =
       [page |-> 1, pageSize |-> 20,
        sort |-> [columnKey |-> "name", order |-> "asc"],
        filters |-> [status |-> 1, keyword |-> 1]]

\* C21: refresh issues one fetch for the current page, page size, sort and
\* filters and leaves pagination.current, pagination.pageSize, sortInfo and
\* filters as they were.
C21_RefreshKeepsParameters ==
  [][refresh =>
       /\ fetchCalls' = fetchCalls + 1
       /\ pending' = Append(pending,
                            [page |-> pagination.current,
                             pageSize |-> pagination.pageSize,
                             sort |-> sortInfo,
                             filters |-> IF filters = EmptyObject THEN Undefined
                                         ELSE filters])
       /\ pagination'.current = pagination.current
       /\ pagination'.pageSize = pagination.pageSize
       /\ sortInfo' = sortInfo
       /\ filters' = filters]_vars

\* Two fetches for the same page 2 of a filtered table are pending: the
\* second repeats the parameters of the first.
C21_Witness ==
  /\ pagination.current = 2
  /\ filters # EmptyObject
  /\ Len(pending) = 2
  /\ pending[1] = pending[2]
  /\ pending[2].page = 2
  /\ pending[2].filters = filters

\* The pixel height a declared height h stands for when the parent element
\* measures p.clientHeight: a number as given, a percentage string as that
\* percentage of the parent's height, another string as its parsed float.
DeclaredResolution(h, p) ==
  IF h.type = "number" THEN Num(Px(h.n))
  ELSE LET parsed == ParseFloat(h.s)
       IN IF ~IsNum(parsed) THEN NaN
          ELSE IF Includes(h.s, "%")
            THEN Num((p.clientHeight * parsed.v * PxUnit) \div 100)
            ELSE Num(Px(parsed.v))

IsPercentage(h) == h.type = "string" /\ Includes(h.s, "%")

\* C22: while the list is mounted, containerHeight is the resolution of the
\* declared height: always so for a number or a string without "%"; for a
\* percentage, every mount, height change and window resize that finds a
\* parent element leaves the percentage of the parent's height at that time,
\* so a percentage that found no parent at mount is resolved by the next
\* such event that finds one.
C22_HeightResolved ==
  /\ []((lifecycle = "mounted" /\ ~IsPercentage(height)) =>
          containerHeight = DeclaredResolution(height, parent))
  /\ [][((Mount \/ WindowResize \/ \E h \in Heights : SetHeight(h))
          /\ lifecycle' = "mounted" /\ IsPercentage(height') /\ parent.attached) =>
          containerHeight' = DeclaredResolution(height', parent)]_vars

\* A mounted list declared as 50% whose container holds half of the 300px
\* its parent measures.
C22_Witness ==
  /\ lifecycle = "mounted"
  /\ IsPercentage(height)
  /\ parent = [attached |-> TRUE, clientHeight |-> 300]
  /\ containerHeight = Num(Px(150))

\* C23: once every fetch has settled, and the most recently issued one has
\* resolved, tableData and pagination.total are the rows and the total that
\* were returned for it, the rows being those for the current page, page
\* size, sort and filters.
C23_LatestResponseWins ==
  (pending = <<>> /\ latestFetch.status = "resolved") =>
    /\ tableData = <<FetchParams(pagination, sortInfo, filters)>>
    /\ pagination.total = latestFetch.total

\* C24: as long as the manager listens to the system preference (no
\* 'beforeunload' has removed the listener), the document root carries the
\* class 'dark' exactly when the theme is 'dark', or is 'system' while the
\* system prefers dark; and a setTheme call with an invalid theme changes
\* neither the current theme nor the persisted value.
C24_DarkClassFollowsTheme ==
  /\ [](systemListening =>
          (rootDark <=> (\/ currentTheme = "dark"
                         \/ (currentTheme = "system" /\ systemDark))))
  /\ [][\A theme \in ThemeArguments \ ValidThemes :
          SetTheme(theme) =>
            (currentTheme' = currentTheme /\ storedTheme' = storedTheme)]_vars

\* The theme was set to 'system', an invalid setTheme call has been made, and
\* the root is dark because the system prefers dark.
C24_Witness ==
  /\ systemListening
  /\ currentTheme = "system" /\ storedTheme = "system"
  /\ systemDark /\ rootDark
  /\ invalidThemeErrors = 1

\* The order cycleTheme is said to follow.
CycleSuccessor(theme) ==
  CASE theme = "light" -> "dark"
    [] theme = "dark" -> "system"
    [] theme = "system" -> "light"

\* C25: cycleTheme takes light to dark, dark to system and system to light,
\* so that two further calls lead back to the theme it started from, and
\* after the call getTheme() and the persisted value are the new theme.
C25_CycleOrder ==
  [][cycleTheme =>
       /\ currentTheme' = CycleSuccessor(currentTheme)
       /\ CycleSuccessor(CycleSuccessor(currentTheme')) = currentTheme
       /\ getTheme' = currentTheme'
       /\ storedTheme' = currentTheme']_vars

\* The theme is 'light' and persisted, and registered handlers have been
\* notified of it.
C25_Witness ==
  /\ currentTheme = "light" /\ storedTheme = "light"
  /\ ~rootDark
  /\ notified # <<>>

\* The registrations that were made and whose own unsubscribe function has
\* not been called.
LiveRegistrations == (1..Len(registrations)) \ unsubscribed

RegistrationsIn(handlers) == {handlers[i].reg : i \in 1..Len(handlers)}

ThemeChangeNotifies ==
  \/ \E theme \in ValidThemes : SetTheme(theme)
  \/ cycleTheme
  \/ (SystemThemeChange /\ systemListening /\ currentTheme = "system")

\* C26: an unsubscribe function removes its own registration and no other:
\* the registered handlers are always exactly the registrations not yet
\* unsubscribed, and every theme change calls exactly those.
C26_UnsubscribeExact ==
  /\ [](RegistrationsIn(themeChangeHandlers) = LiveRegistrations)
  /\ [][ThemeChangeNotifies =>
          {notified'[i] : i \in 1..Len(notified')} = LiveRegistrations']_vars

=============================================================================
